---------------------------- MODULE Spec2Model ----------------------------
(***************************************************************************)
(* libezdxf: the handle-indexed ObjectTable (object_table.hpp) and the     *)
(* cached group code classifier group_code_type (tag_types.cpp).           *)
(*                                                                         *)
(* Handles are unsigned integers of HandleBits bits (64 in the program);  *)
(* the table has 2^N buckets (2^12 in the program).  Both widths are       *)
(* scaled down so that bucket collisions and the wrap of the handle        *)
(* counter are reached by short call sequences.                            *)
(***************************************************************************)
EXTENDS Integers, Sequences, FiniteSets, TLC

HandleBits == 2
N == 1
MaxStores == 2
MaxAcquires == 2
MaxCode == 1075
MaxCached == 2
MaxCoord == 1
NumThreads == 2

VARIABLES buckets, max_handle_, size_, last, requested, accepted, issued,
          group_code_cache, classified, tag, cast, threads

tableVars == <<buckets, max_handle_, size_>>
histVars == <<last, requested, accepted, issued>>
classifierVars == <<group_code_cache, classified>>
tagVars == <<tag, cast>>
raceVars == <<threads>>
vars == <<buckets, max_handle_, size_, last, requested, accepted, issued,
          group_code_cache, classified, tag, cast, threads>>

---------------------------------------------------------------------------
(* Types of the table *)

HandleModulus == 2 ^ HandleBits
Handle == 0 .. (HandleModulus - 1)

\* constexpr int count = 1 << N
count == 2 ^ N
\* constexpr uint64_t hash_mask = count - 1
hash_mask == count - 1

\* Object pointers: an object is identified by its id and carries the handle
\* get_handle() returns; the null pointer is the record with id 0.
nullptr == [id |-> 0, handle |-> 0]
Object(id, handle) == [id |-> id, handle |-> handle]
get_handle(object) == object.handle

\* struct TableEntry { Handle handle; std::unique_ptr<Object> object; }
TableEntry(handle, object) == [handle |-> handle, object |-> object]

\* The two exceptions store throws, both std::invalid_argument.
NoException == [type |-> "none", what |-> ""]
InvalidHandle == [type |-> "std::invalid_argument",
                  what |-> "object handle 0 is invalid"]
DuplicateBinding == [type |-> "std::invalid_argument",
                     what |-> "object with same handle already exist"]

\* handle & mask on unsigned integers, bit by bit
RECURSIVE BitAnd(_, _)
BitAnd(a, b) ==
    IF a = 0 \/ b = 0 THEN 0
    ELSE (a % 2) * (b % 2) + 2 * BitAnd(a \div 2, b \div 2)

---------------------------------------------------------------------------
(* Const member functions of ObjectTable, as operators on the bucket array *)

\* Bucket get_bucket(Handle) const: returns the bucket BY VALUE, a copy.
get_bucket(bs, handle) == bs[BitAnd(handle, hash_mask)]

\* Linear scan of the (copied) bucket; index of the first entry with the handle,
\* 0 when the loop falls through.
RECURSIVE scan(_, _, _)
scan(bucket, handle, i) ==
    IF i > Len(bucket) THEN 0
    ELSE IF bucket[i].handle = handle THEN i
    ELSE scan(bucket, handle, i + 1)

get_ReturnsNull(bs, handle, default_) ==
    LET bucket == bs[BitAnd(handle, hash_mask)]
        i == scan(bucket, handle, 1)
    IN  IF i # 0 THEN bucket[i].object ELSE nullptr

get(bs, handle, default_) ==
    LET bucket == get_bucket(bs, handle)
        i == scan(bucket, handle, 1)
    IN  IF i # 0 THEN bucket[i].object ELSE default_

has_OrForAnd(bs, handle) ==
    handle # 0 \/ get(bs, handle, nullptr) # nullptr

has(bs, handle) ==
    handle # 0 /\ get(bs, handle, nullptr) # nullptr

contains(bs, object) == has(bs, get_handle(object))

size(sz) == sz

---------------------------------------------------------------------------
(* The DXF tag classes (tag.hpp) *)

\* GroupCode: kError = -1, kStructure = 0, kComment = 999
kError == 0 - 1
kStructure == 0
kComment == 999

\* Values the tags are built from.  Real values (double) are stood for by the
\* integers 0 .. MaxCoord: the tags only store and return them.
TagCodes == {kError, kStructure, 10, kComment}
Strings == {"", "SECTION", "EOF"}
ByteSeqs == {<<>>, <<0>>, <<255, 1>>}
Int64s == {0 - 1, 0, 7}
Reals == 0 .. MaxCoord

\* Constructors: the class of the object, the group code of the DXFTag base and
\* the value_ member of the subclass.
DXFTag(code) == [code |-> code, class |-> "DXFTag"]
StringTag(code, value) ==
    [code |-> code, class |-> "StringTag", value_ |-> value]
BinaryTag(code, value) ==
    [code |-> code, class |-> "BinaryTag", value_ |-> value]
IntegerTag(code, value) ==
    [code |-> code, class |-> "IntegerTag", value_ |-> value]
RealTag(code, value) ==
    [code |-> code, class |-> "RealTag", value_ |-> value]
Vec3Tag(code, x, y, z) ==
    [code |-> code, class |-> "Vec3Tag", value_ |-> <<x, y, z>>]

\* Vec2Tag passing y where the z-axis belongs
Vec2Tag_ZFromY(code, x, y) ==
    [code |-> code, class |-> "Vec2Tag", value_ |-> <<x, y, y>>]

\* Vec2Tag(code, x, y) : Vec3Tag(code, x, y, 0.0)
Vec2Tag(code, x, y) ==
    [Vec3Tag(code, x, y, 0) EXCEPT !.class = "Vec2Tag"]

group_code(t) == t.code

\* virtual TagType type() const, by the class that overrides it last
type(t) ==
    CASE t.class = "DXFTag" -> "kUndefined"
      [] t.class = "StringTag" -> "kString"
      [] t.class = "BinaryTag" -> "kBinaryData"
      [] t.class = "IntegerTag" -> "kInteger"
      [] t.class = "RealTag" -> "kReal"
      [] t.class = "Vec3Tag" -> "kVec3"
      [] t.class = "Vec2Tag" -> "kVec2"

is_error_tag(t) == t.code = kError
is_undefined(t) == type(t) = "kUndefined"
has_string_value(t) == type(t) = "kString"
has_binary_data(t) == type(t) = "kBinaryData"
has_real_value(t) == type(t) = "kReal"
has_integer_value(t) == type(t) = "kInteger"
has_vec3_value(t) == type(t) = "kVec2" \/ type(t) = "kVec3"
export_vec2(t) == type(t) = "kVec2"

\* What a call ends with: a returned value, or a thrown std::bad_cast
Returned(v) == [value |-> v, exc |-> "none"]
bad_cast == [exc |-> "std::bad_cast"]

\* The virtual casts: the override of the tag's class, else DXFTag's, which
\* throws.
string(t) == IF t.class = "StringTag" THEN Returned(t.value_) ELSE bad_cast
bytes(t) == IF t.class = "BinaryTag" THEN Returned(t.value_) ELSE bad_cast
integer(t) == IF t.class = "IntegerTag" THEN Returned(t.value_) ELSE bad_cast
real(t) == IF t.class = "RealTag" THEN Returned(t.value_) ELSE bad_cast

\* vec3 with Vec2Tag not reaching the override of Vec3Tag
vec3_Vec3TagOnly(t) ==
    IF t.class = "Vec3Tag" THEN Returned(t.value_) ELSE bad_cast

\* Vec2Tag inherits the override of Vec3Tag
vec3(t) ==
    IF t.class \in {"Vec3Tag", "Vec2Tag"} THEN Returned(t.value_)
    ELSE bad_cast

\* equals calling string() without the test of the tag type
equals_NoKindTest(t, code_, s) ==
    IF t.code = code_
    THEN LET r == IF t.class = "StringTag" THEN Returned(t.value_)
                  ELSE bad_cast
         IN  IF r.exc = "none" THEN Returned(s = r.value) ELSE r
    ELSE Returned(FALSE)

\* bool equals(int code_, const std::string &s) const: && evaluates string()
\* only when the code matches and the type is kString
equals(t, code_, s) ==
    IF t.code = code_ /\ type(t) = "kString"
    THEN LET r == string(t)
         IN  IF r.exc = "none" THEN Returned(s = r.value) ELSE r
    ELSE Returned(FALSE)

---------------------------------------------------------------------------
(* Observation of the last call and the history of calls *)

\* The last call of group_code_type: its argument, what it returned, whether
\* the cache already held the code, and whether any call was made yet.
Classified(code, ret, hit, called) ==
    [code |-> code, ret |-> ret, hit |-> hit, called |-> called]

Call(op, handle, arg, default_, ret_handle, ret_object, ret_bool, exc) ==
    [handle |-> handle, default_ |-> default_, exc |-> exc, op |-> op,
     arg |-> arg, ret_handle |-> ret_handle, ret_object |-> ret_object,
     ret_bool |-> ret_bool]

\* The callers of group_code_type and where each stands in its call
Threads == 1 .. NumThreads
Idle == [code |-> 0, ret |-> "TEXT", pc |-> "idle", tag_type |-> "TEXT",
         raced |-> FALSE]

\* An object some caller owns outside the table, carrying handle h.
Foreign(h) == Object(MaxStores + 1, h)

Init ==
    /\ buckets = [b \in 0 .. (count - 1) |-> <<>>]
    /\ max_handle_ = 0
    /\ size_ = 0
    /\ last = Call("none", 0, nullptr, nullptr, 0, nullptr, FALSE, NoException)
    /\ requested = <<>>
    /\ accepted = <<>>
    /\ issued = <<>>
    /\ group_code_cache = <<>>
    /\ classified = Classified(0, "TEXT", FALSE, FALSE)
    /\ tag = DXFTag(kError)
    /\ cast = [op |-> "none"]
    /\ threads = [t \in Threads |-> Idle]

---------------------------------------------------------------------------
(* Mutating member functions *)

\* void store(std::unique_ptr<Object> object), the zero-handle test left out
Store_NoZeroCheck(h) ==
    /\ Len(requested) < MaxStores
    /\ LET object == Object(Len(requested) + 1, h)
           handle == get_handle(object)
       IN  /\ requested' = Append(requested, object)
           /\ IF ~has(buckets, handle)
              THEN /\ buckets' = buckets
                   /\ size_' = size_ + 1
                   /\ max_handle_' =
                          IF handle > max_handle_ THEN handle ELSE max_handle_
                   /\ accepted' = Append(accepted, object)
                   /\ last' = Call("store", handle, object, nullptr, 0, nullptr,
                                   FALSE, NoException)
              ELSE /\ UNCHANGED <<tableVars, accepted>>
                   /\ last' = Call("store", handle, object, nullptr, 0, nullptr,
                                   FALSE, DuplicateBinding)
    /\ UNCHANGED <<issued, classifierVars, tagVars, raceVars>>

\* void store(std::unique_ptr<Object> object)
\* The caller hands over a freshly constructed object with handle h.
Store(h) ==
    /\ Len(requested) < MaxStores
    /\ LET object == Object(Len(requested) + 1, h)
           handle == get_handle(object)
       IN  /\ requested' = Append(requested, object)
           /\ IF handle = 0
              THEN /\ UNCHANGED <<tableVars, accepted>>
                   /\ last' = Call("store", handle, object, nullptr, 0, nullptr,
                                   FALSE, InvalidHandle)
              ELSE IF ~has(buckets, handle)
              THEN \* get_bucket(handle) is a temporary copy of the bucket: the
                   \* entry is appended to the copy, which is destroyed at the
                   \* end of the statement.  The table's bucket is not touched.
                   LET temporary == get_bucket(buckets, handle)
                       emplaced == Append(temporary, TableEntry(handle, object))
                   IN  /\ Len(emplaced) = Len(temporary) + 1
                       /\ buckets' = buckets
                       /\ size_' = size_ + 1
                       /\ max_handle_' =
                              IF handle > max_handle_ THEN handle
                              ELSE max_handle_
                       /\ accepted' = Append(accepted, object)
                       /\ last' = Call("store", handle, object, nullptr, 0,
                                       nullptr, FALSE, NoException)
              ELSE /\ UNCHANGED <<tableVars, accepted>>
                   /\ last' = Call("store", handle, object, nullptr, 0, nullptr,
                                   FALSE, DuplicateBinding)
    /\ UNCHANGED <<issued, classifierVars, tagVars, raceVars>>

\* Handle aquire_free_handle() { return ++max_handle_; } on HandleBits bits
aquire_free_handle ==
    /\ Len(issued) < MaxAcquires
    /\ max_handle_' = (max_handle_ + 1) % HandleModulus
    /\ issued' = Append(issued, max_handle_')
    /\ last' = Call("aquire_free_handle", 0, nullptr, nullptr, max_handle_',
                    nullptr, FALSE, NoException)
    /\ UNCHANGED <<buckets, size_, requested, accepted, classifierVars, tagVars, raceVars>>

---------------------------------------------------------------------------
(* Calls of the const member functions *)

Get(h, d) ==
    /\ last' = Call("get", h, nullptr, d, 0, get(buckets, h, d), FALSE,
                    NoException)
    /\ UNCHANGED <<tableVars, requested, accepted, issued, classifierVars, tagVars, raceVars>>

Has(h) ==
    /\ last' = Call("has", h, nullptr, nullptr, 0, nullptr, has(buckets, h),
                    NoException)
    /\ UNCHANGED <<tableVars, requested, accepted, issued, classifierVars, tagVars, raceVars>>

Contains(object) ==
    /\ last' = Call("contains", get_handle(object), object, nullptr, 0, nullptr,
                    contains(buckets, object), NoException)
    /\ UNCHANGED <<tableVars, requested, accepted, issued, classifierVars, tagVars, raceVars>>

Size ==
    /\ last' = Call("size", 0, nullptr, nullptr, size(size_), nullptr, FALSE,
                    NoException)
    /\ UNCHANGED <<tableVars, requested, accepted, issued, classifierVars, tagVars, raceVars>>

---------------------------------------------------------------------------
(* The group code classifier *)

MinCode == 0 - 2
Codes == MinCode .. MaxCode

\* Codes that recur in a document: band edges, the structure tag 0, the error
\* tag -1.  Calls after the first draw new codes from this set.
RecurringCodes == {0 - 1, 0, 10, 18, 19, 59, 60, 113, 1014}

\* The band test of the uncached group_code_type (tag_types.cpp)
group_code_type_uncached(code) ==
    IF \/ (code >= 10 /\ code < 19)
       \/ (code >= 110 /\ code < 113)
       \/ (code >= 210 /\ code < 214)
       \/ (code >= 1010 /\ code < 1014)
    THEN "VERTEX"
    ELSE IF \/ (code >= 10 /\ code < 60)
            \/ (code >= 110 /\ code < 150)
            \/ (code >= 210 /\ code < 240)
            \/ (code >= 460 /\ code < 470)
            \/ (code >= 1010 /\ code < 1060)
    THEN "DECIMAL"
    ELSE IF \/ (code >= 60 /\ code < 80)
            \/ (code >= 90 /\ code < 100)
            \/ (code >= 160 /\ code < 180)
            \/ (code >= 270 /\ code < 290)
            \/ (code >= 370 /\ code < 390)
            \/ (code >= 400 /\ code < 410)
            \/ (code >= 420 /\ code < 430)
            \/ (code >= 440 /\ code < 460)
            \/ (code >= 1060 /\ code < 1072)
    THEN "INTEGER"
    ELSE "TEXT"

\* The band test with the first vertex band closed at 19
tag_type_of_VertexIncludes19(code) ==
    IF \/ (code >= 10 /\ code <= 19)
       \/ (code >= 110 /\ code < 113)
       \/ (code >= 210 /\ code < 214)
       \/ (code >= 1010 /\ code < 1014)
    THEN "VERTEX"
    ELSE IF \/ (code >= 19 /\ code < 60)
            \/ (code >= 113 /\ code < 150)
            \/ (code >= 214 /\ code < 240)
            \/ (code >= 460 /\ code < 470)
            \/ (code >= 1014 /\ code < 1060)
    THEN "DECIMAL"
    ELSE IF \/ (code >= 60 /\ code < 80)
            \/ (code >= 90 /\ code < 100)
            \/ (code >= 160 /\ code < 180)
            \/ (code >= 270 /\ code < 290)
            \/ (code >= 370 /\ code < 390)
            \/ (code >= 400 /\ code < 410)
            \/ (code >= 420 /\ code < 430)
            \/ (code >= 440 /\ code < 460)
            \/ (code >= 1060 /\ code < 1072)
    THEN "INTEGER"
    ELSE "TEXT"

\* tag_type as the cached group_code_type computes it on a miss: the default
\* TEXT, overwritten by the first band that holds the code.
tag_type_of(code) ==
    IF \/ (code >= 10 /\ code < 19)
       \/ (code >= 110 /\ code < 113)
       \/ (code >= 210 /\ code < 214)
       \/ (code >= 1010 /\ code < 1014)
    THEN "VERTEX"
    ELSE IF \/ (code >= 19 /\ code < 60)
            \/ (code >= 113 /\ code < 150)
            \/ (code >= 214 /\ code < 240)
            \/ (code >= 460 /\ code < 470)
            \/ (code >= 1014 /\ code < 1060)
    THEN "DECIMAL"
    ELSE IF \/ (code >= 60 /\ code < 80)
            \/ (code >= 90 /\ code < 100)
            \/ (code >= 160 /\ code < 180)
            \/ (code >= 270 /\ code < 290)
            \/ (code >= 370 /\ code < 390)
            \/ (code >= 400 /\ code < 410)
            \/ (code >= 420 /\ code < 430)
            \/ (code >= 440 /\ code < 460)
            \/ (code >= 1060 /\ code < 1072)
    THEN "INTEGER"
    ELSE "TEXT"

\* std::unordered_map::find: TRUE when the map holds the key
cache_find(cache, code) == code \in DOMAIN cache

\* std::unordered_map::insert: no effect when the key is already present
cache_insert(cache, code, tag_type) ==
    IF code \in DOMAIN cache THEN cache
    ELSE [c \in DOMAIN cache \cup {code} |->
              IF c = code THEN tag_type ELSE cache[c]]

\* group_code_type inserting the default TEXT that tag_type starts with
group_code_type_InsertsDefault(code) ==
    /\ IF code \in DOMAIN group_code_cache
       THEN /\ classified' =
                   Classified(code, group_code_cache[code], TRUE, TRUE)
            /\ UNCHANGED group_code_cache
       ELSE /\ group_code_cache' =
                   [c \in DOMAIN group_code_cache \cup {code} |->
                       IF c = code THEN "TEXT" ELSE group_code_cache[c]]
            /\ classified' = Classified(code, tag_type_of(code), FALSE, TRUE)
    /\ UNCHANGED <<tableVars, histVars, tagVars, raceVars>>

\* TagType group_code_type(int code), the cached implementation
group_code_type(code) ==
    /\ IF cache_find(group_code_cache, code)
       THEN /\ classified' =
                   Classified(code, group_code_cache[code], TRUE, TRUE)
            /\ UNCHANGED group_code_cache
       ELSE LET tag_type == tag_type_of(code)
            IN  /\ group_code_cache' =
                       cache_insert(group_code_cache, code, tag_type)
                /\ classified' = Classified(code, tag_type, FALSE, TRUE)
    /\ UNCHANGED <<tableVars, histVars, tagVars, raceVars>>

\* The codes the next call may pass: any code for the first call; afterwards a
\* cached code, or a recurring code while the cache holds fewer than MaxCached.
CallableCodes ==
    IF DOMAIN group_code_cache = {} THEN Codes
    ELSE DOMAIN group_code_cache \cup
         (IF Cardinality(DOMAIN group_code_cache) < MaxCached
          THEN RecurringCodes ELSE {})

NextClassify == \E code \in CallableCodes : group_code_type(code)

SpecClassify == Init /\ [][NextClassify]_vars

---------------------------------------------------------------------------
(* Concurrent callers of group_code_type *)

\* group_code_cache is a std::unordered_map shared by all callers with no
\* lock.  A call reads it in find and, after a miss, writes it in insert.
\* find and insert take time: a thread is inside find at pc "find" and inside
\* insert at pc "insert".  An access that overlaps an insert of another thread
\* is a data race; what a raced access reads or leaves behind is not defined,
\* so it is any of the outcomes below.
TagTypes == {"TEXT", "VERTEX", "DECIMAL", "INTEGER"}
RaceCodes == {0, 10, 19}

Others(t) == Threads \ {t}

\* The thread enters group_code_type(code) and starts find
EnterFind(t, code) ==
    /\ threads[t].pc = "idle"
    /\ threads' = [threads EXCEPT ![t] =
           [code |-> code, ret |-> "TEXT", pc |-> "find",
            tag_type |-> "TEXT",
            raced |-> \E u \in Others(t) : threads[u].pc = "insert"]]
    /\ UNCHANGED <<tableVars, histVars, classifierVars, tagVars>>

\* find returns: a hit returns it->second, a miss runs the band tests
LeaveFind(t) ==
    /\ threads[t].pc = "find"
    /\ \E found \in IF threads[t].raced
                    THEN [hit : {TRUE}, second : TagTypes]
                         \cup {[hit |-> FALSE, second |-> "TEXT"]}
                    ELSE IF cache_find(group_code_cache, threads[t].code)
                    THEN {[hit |-> TRUE,
                           second |-> group_code_cache[threads[t].code]]}
                    ELSE {[hit |-> FALSE, second |-> "TEXT"]} :
           threads' = [threads EXCEPT ![t] =
               IF found.hit
               THEN [@ EXCEPT !.pc = "done", !.ret = found.second,
                              !.raced = FALSE]
               ELSE [@ EXCEPT !.pc = "miss",
                              !.tag_type = tag_type_of(threads[t].code),
                              !.raced = FALSE]]
    /\ UNCHANGED <<tableVars, histVars, classifierVars, tagVars>>

\* The thread starts insert: every access in progress now overlaps a write,
\* and the insert itself is raced when another insert is in progress
EnterInsert(t) ==
    /\ threads[t].pc = "miss"
    /\ threads' = [u \in Threads |->
           IF u = t
           THEN [threads[u] EXCEPT !.pc = "insert",
                    !.raced = \E v \in Others(t) :
                                  threads[v].pc = "insert"]
           ELSE IF threads[u].pc \in {"find", "insert"}
           THEN [threads[u] EXCEPT !.raced = TRUE]
           ELSE threads[u]]
    /\ UNCHANGED <<tableVars, histVars, classifierVars, tagVars>>

\* insert returns and the call returns tag_type.  A raced insert leaves the
\* key with any value, or leaves it out.
LeaveInsert(t) ==
    /\ threads[t].pc = "insert"
    /\ LET code == threads[t].code
           kept == [c \in DOMAIN group_code_cache \ {code} |->
                       group_code_cache[c]]
       IN  \E after \in IF threads[t].raced
                        THEN {cache_insert(kept, code, v) : v \in TagTypes}
                             \cup {kept}
                        ELSE {cache_insert(group_code_cache, code,
                                           threads[t].tag_type)} :
               group_code_cache' = after
    /\ threads' = [threads EXCEPT ![t] =
           [@ EXCEPT !.pc = "done", !.ret = threads[t].tag_type,
                     !.raced = FALSE]]
    /\ UNCHANGED <<tableVars, histVars, classified, tagVars>>

\* The caller takes the result
Return(t) ==
    /\ threads[t].pc = "done"
    /\ threads' = [threads EXCEPT ![t] = Idle]
    /\ UNCHANGED <<tableVars, histVars, classifierVars, tagVars>>

NextRace ==
    \/ \E t \in Threads, code \in RaceCodes : EnterFind(t, code)
    \/ \E t \in Threads : LeaveFind(t)
    \/ \E t \in Threads : EnterInsert(t)
    \/ \E t \in Threads : LeaveInsert(t)
    \/ \E t \in Threads : Return(t)

SpecRace == Init /\ [][NextRace]_vars

---------------------------------------------------------------------------
(* Tags: construction and calls of the member functions *)

Construct(t) ==
    /\ tag' = t
    /\ cast' = [op |-> "none"]
    /\ UNCHANGED <<tableVars, histVars, classifierVars, raceVars>>

Cast(op, result) ==
    /\ cast' = [op |-> op, result |-> result]
    /\ UNCHANGED <<tag, tableVars, histVars, classifierVars, raceVars>>

CallEquals(code_, s) ==
    /\ cast' = [code_ |-> code_, s |-> s, op |-> "equals",
                result |-> equals(tag, code_, s)]
    /\ UNCHANGED <<tag, tableVars, histVars, classifierVars, raceVars>>

CallPredicates ==
    /\ cast' = [type |-> type(tag),
                group_code |-> group_code(tag),
                is_error_tag |-> is_error_tag(tag),
                is_undefined |-> is_undefined(tag),
                has_string_value |-> has_string_value(tag),
                has_binary_data |-> has_binary_data(tag),
                has_real_value |-> has_real_value(tag),
                has_integer_value |-> has_integer_value(tag),
                has_vec3_value |-> has_vec3_value(tag),
                export_vec2 |-> export_vec2(tag),
                op |-> "predicates"]
    /\ UNCHANGED <<tag, tableVars, histVars, classifierVars, raceVars>>

NextTag ==
    \/ \E c \in TagCodes : Construct(DXFTag(c))
    \/ \E c \in TagCodes, v \in Strings : Construct(StringTag(c, v))
    \/ \E c \in TagCodes, v \in ByteSeqs : Construct(BinaryTag(c, v))
    \/ \E c \in TagCodes, v \in Int64s : Construct(IntegerTag(c, v))
    \/ \E c \in TagCodes, v \in Reals : Construct(RealTag(c, v))
    \/ \E c \in TagCodes, x, y, z \in Reals : Construct(Vec3Tag(c, x, y, z))
    \/ \E c \in TagCodes, x, y \in Reals : Construct(Vec2Tag(c, x, y))
    \/ Cast("string", string(tag))
    \/ Cast("bytes", bytes(tag))
    \/ Cast("integer", integer(tag))
    \/ Cast("real", real(tag))
    \/ Cast("vec3", vec3(tag))
    \/ \E c \in TagCodes, s \in Strings : CallEquals(c, s)
    \/ CallPredicates

SpecTag == Init /\ [][NextTag]_vars

---------------------------------------------------------------------------
Next ==
    \/ \E h \in Handle : Store(h)
    \/ aquire_free_handle
    \/ \E h \in Handle, d \in {nullptr, Foreign(1)} : Get(h, d)
    \/ \E h \in Handle : Has(h)
    \/ \E h \in Handle : Contains(Foreign(h))
    \/ Size

Spec == Init /\ [][Next]_vars

---------------------------------------------------------------------------
(* Vocabulary of the properties *)

\* get's loop meets an entry with handle h in the bucket it scans
Finds(h) ==
    \E i \in 1 .. Len(get_bucket(buckets, h)) :
        get_bucket(buckets, h)[i].handle = h

\* Every entry of every bucket
Entries ==
    {buckets[b][i] : <<b, i>> \in
        {<<b, i>> \in (DOMAIN buckets) \X (1 .. MaxStores) :
            i <= Len(buckets[b])}}

\* The step is a call of store; Stored is the object it was given
StoreStep == Len(requested') = Len(requested) + 1
Stored == requested'[Len(requested')]

\* The first object store accepted under handle h
FirstAccepted(h) ==
    accepted[CHOOSE i \in 1 .. Len(accepted) :
                /\ accepted[i].handle = h
                /\ \A j \in 1 .. (i - 1) : accepted[j].handle # h]

\* All calls of store so far carried pairwise distinct non-zero handles
DistinctNonZeroRequests ==
    /\ \A i \in 1 .. Len(requested) : requested[i].handle # 0
    /\ \A i, j \in 1 .. Len(requested) :
           i # j => requested[i].handle # requested[j].handle

\* The band table: closed bands of codes per category, TEXT for the rest
InBands(code, bands) == \E b \in bands : b[1] <= code /\ code <= b[2]
BandTable(code) ==
    IF InBands(code, {<<10, 18>>, <<110, 112>>, <<210, 213>>, <<1010, 1013>>})
    THEN "VERTEX"
    ELSE IF InBands(code, {<<19, 59>>, <<113, 149>>, <<214, 239>>,
                           <<460, 469>>, <<1014, 1059>>})
    THEN "DECIMAL"
    ELSE IF InBands(code, {<<60, 79>>, <<90, 99>>, <<160, 179>>, <<270, 289>>,
                           <<370, 389>>, <<400, 409>>, <<420, 429>>,
                           <<440, 459>>, <<1060, 1071>>})
    THEN "INTEGER"
    ELSE "TEXT"

---------------------------------------------------------------------------
(* Properties of the object table, checked under Spec *)

\* C1: round trip.  While all store calls carried pairwise distinct non-zero
\* handles, every store succeeded, get(h) returns the object stored under h
\* for every stored h, and size() is the number of successful stores.
C1_RoundTrip ==
    DistinctNonZeroRequests =>
        /\ accepted = requested
        /\ \A i \in 1 .. Len(accepted) :
               get(buckets, accepted[i].handle, nullptr) = accepted[i]
        /\ size(size_) = Len(accepted)

\* C2: store never overwrites.  A store of an object whose non-zero handle was
\* accepted before fails with the duplicate-binding exception, get(h) still
\* returns the first object, and size() is unchanged.
C2_NoOverwrite ==
    [][(/\ StoreStep
        /\ Stored.handle # 0
        /\ \E i \in 1 .. Len(accepted) : accepted[i].handle = Stored.handle)
       => /\ last'.exc = DuplicateBinding
          /\ get(buckets', Stored.handle, nullptr) = FirstAccepted(Stored.handle)
          /\ size(size_') = size(size_)]_vars

\* C3: a store of an object with handle 0 throws the invalid-handle exception
\* from every reachable table state and leaves size(), every binding and the
\* running maximum handle as they were.
C3_ZeroHandleRejected ==
    [][(StoreStep /\ Stored.handle = 0)
       => /\ last'.op = "store"
          /\ last'.exc = InvalidHandle
          /\ size(size_') = size(size_)
          /\ buckets' = buckets
          /\ \A h \in Handle :
                 get(buckets', h, nullptr) = get(buckets, h, nullptr)
          /\ max_handle_' = max_handle_
          /\ accepted' = accepted]_vars

C3_Witness ==
    /\ last.op = "store"
    /\ last.handle = 0
    /\ last.exc = InvalidHandle
    /\ size_ > 0
    /\ max_handle_ > 0

\* C4: aquire_free_handle returns a handle strictly greater than every handle
\* it returned before and every handle stored so far.
C4_StrictlyGreater ==
    last.op = "aquire_free_handle" =>
        /\ \A i \in 1 .. (Len(issued) - 1) : issued[i] < last.ret_handle
        /\ \A i \in 1 .. Len(accepted) : accepted[i].handle < last.ret_handle

\* C6: has(h) is false for h = 0 and otherwise true exactly when get finds an
\* entry; contains(x) equals has(x.get_handle()).
C6_HasContains ==
    /\ \A h \in Handle : has(buckets, h) = (h # 0 /\ Finds(h))
    /\ \A h \in Handle : contains(buckets, Foreign(h)) = has(buckets, h)
    /\ last.op = "has" =>
           last.ret_bool = (last.handle # 0 /\ Finds(last.handle))
    /\ last.op = "contains" =>
           last.ret_bool = (get_handle(last.arg) # 0
                            /\ Finds(get_handle(last.arg)))

C6_Witness ==
    /\ last.op = "contains"
    /\ get_handle(last.arg) # 0
    /\ last.ret_bool = has(buckets, get_handle(last.arg))
    /\ size_ > 0

\* C7: get(h, d) for a handle the table does not bind returns d, the null
\* default included, and no get call changes size(), the bindings or the
\* running maximum handle.
C7_GetDefault ==
    /\ [](last.op = "get" /\ ~Finds(last.handle)
              => last.ret_object = last.default_)
    /\ [][last'.op = "get" => UNCHANGED <<buckets, size_, max_handle_>>]_vars

C7_Witness ==
    /\ last.op = "get"
    /\ last.default_ = Foreign(1)
    /\ last.ret_object = Foreign(1)
    /\ ~Finds(last.handle)
    /\ size_ > 0

\* C8: no table entry has handle 0, store never accepts an object with handle
\* 0, and has(0) is false whatever the table holds.
C8_ZeroNeverStored ==
    /\ \A e \in Entries : e.handle # 0
    /\ \A i \in 1 .. Len(accepted) : accepted[i].handle # 0
    /\ ~has(buckets, 0)
    /\ (last.op = "has" /\ last.handle = 0) => ~last.ret_bool

C8_Witness ==
    /\ last.op = "has"
    /\ last.handle = 0
    /\ ~last.ret_bool
    /\ \E i \in 1 .. Len(requested) : requested[i].handle = 0
    /\ size_ > 0

---------------------------------------------------------------------------
(* Properties of the classifier, checked under SpecClassify *)

C10_CacheTransparent ==
    /\ [](classified.called =>
              classified.ret = group_code_type_uncached(classified.code))
    /\ [][\A c \in DOMAIN group_code_cache :
              /\ c \in DOMAIN group_code_cache'
              /\ group_code_cache'[c] = group_code_cache[c]]_vars

C10_Witness ==
    /\ classified.called
    /\ classified.hit
    /\ classified.code = 113
    /\ classified.ret = "DECIMAL"
    /\ Cardinality(DOMAIN group_code_cache) = MaxCached

---------------------------------------------------------------------------
(* Properties of the tags, checked under SpecTag *)

\* The tag type whose representation the cast op returns
Represents(op, kind) ==
    \/ op = "string" /\ kind = "kString"
    \/ op = "bytes" /\ kind = "kBinaryData"
    \/ op = "integer" /\ kind = "kInteger"
    \/ op = "real" /\ kind = "kReal"
    \/ op = "vec3" /\ kind \in {"kVec3", "kVec2"}

Casts == {"string", "bytes", "integer", "real", "vec3"}

\* C11: a cast returns the stored value when the tag's type is the cast's
\* representation (kVec3 or kVec2 for vec3) and throws std::bad_cast
\* otherwise; a kUndefined tag fails every cast; a binary tag of zero bytes
\* has binary data and returns the empty byte sequence.
C11_CastsKindChecked ==
    /\ cast.op \in Casts =>
           IF Represents(cast.op, type(tag))
           THEN cast.result.exc = "none" /\ cast.result.value = tag.value_
           ELSE cast.result.exc = "std::bad_cast"
    /\ type(tag) = "kUndefined" =>
           /\ string(tag).exc = "std::bad_cast"
           /\ bytes(tag).exc = "std::bad_cast"
           /\ integer(tag).exc = "std::bad_cast"
           /\ real(tag).exc = "std::bad_cast"
           /\ vec3(tag).exc = "std::bad_cast"
    /\ \A c \in TagCodes :
           /\ has_binary_data(BinaryTag(c, <<>>))
           /\ bytes(BinaryTag(c, <<>>)).exc = "none"
           /\ bytes(BinaryTag(c, <<>>)).value = <<>>

C11_Witness ==
    /\ cast.op = "bytes"
    /\ type(tag) = "kString"
    /\ cast.result.exc = "std::bad_cast"

\* C12: a Vec2Tag of (c, x, y) has a vec3 value, exports as 2D and returns
\* the value of the Vec3Tag of (c, x, y, 0), while its type differs from that
\* tag's; a Vec3Tag has a vec3 value and does not export as 2D.
C12_Vec2LikeVec3 ==
    /\ \A c \in TagCodes, x \in Reals, y \in Reals :
           LET v2 == Vec2Tag(c, x, y)
               v3 == Vec3Tag(c, x, y, 0)
           IN  /\ has_vec3_value(v2) /\ export_vec2(v2)
               /\ has_vec3_value(v3) /\ ~export_vec2(v3)
               /\ vec3(v2).exc = "none" /\ vec3(v3).exc = "none"
               /\ vec3(v2).value = vec3(v3).value
               /\ type(v2) = "kVec2" /\ type(v3) = "kVec3"
    /\ (tag.class = "Vec2Tag" /\ cast.op = "vec3") =>
           /\ cast.result.exc = "none"
           /\ cast.result.value = <<tag.value_[1], tag.value_[2], 0>>
    /\ (tag.class = "Vec2Tag" /\ cast.op = "predicates") =>
           /\ cast.has_vec3_value /\ cast.export_vec2
           /\ cast.type # "kVec3"
    /\ (tag.class = "Vec3Tag" /\ cast.op = "predicates") =>
           cast.has_vec3_value /\ ~cast.export_vec2

C12_Witness ==
    /\ tag.class = "Vec2Tag"
    /\ cast.op = "vec3"
    /\ cast.result.exc = "none"
    /\ cast.result.value = <<1, 1, 0>>

\* C13: equals(code, text) returns true exactly when the tag's type is
\* kString, its group code is code and its text is text; for a tag of any
\* other type it returns false and never throws std::bad_cast.
C13_EqualsStructural ==
    cast.op = "equals" =>
        /\ cast.result.exc = "none"
        /\ cast.result.value =
               (/\ type(tag) = "kString"
                /\ group_code(tag) = cast.code_
                /\ tag.value_ = cast.s)

C13_Witness ==
    /\ cast.op = "equals"
    /\ tag.class = "IntegerTag"
    /\ group_code(tag) = cast.code_
    /\ cast.result.exc = "none"
    /\ cast.result.value = FALSE

---------------------------------------------------------------------------
(* Further properties of the object table, checked under Spec *)

\* The step is a call of aquire_free_handle; Issued is the handle it returned
AcquireStep == Len(issued') = Len(issued) + 1
Issued == issued'[Len(issued')]

\* Number of entries held in the buckets 0 .. b
RECURSIVE EntriesUpTo(_)
EntriesUpTo(b) ==
    IF b < 0 THEN 0 ELSE Len(buckets[b]) + EntriesUpTo(b - 1)

\* C15: a successful store of an object with handle h binds h to the object,
\* raises size() by exactly 1, sets the running maximum to h if h exceeds it
\* and leaves it otherwise, and changes get(h') for no other handle h'.
C15_StoreEffect ==
    [][(StoreStep /\ last'.exc = NoException)
       => /\ get(buckets', Stored.handle, nullptr) = Stored
          /\ size(size_') = size(size_) + 1
          /\ max_handle_' = IF Stored.handle > max_handle_
                            THEN Stored.handle ELSE max_handle_
          /\ \A h \in Handle \ {Stored.handle} :
                 get(buckets', h, nullptr) = get(buckets, h, nullptr)]_vars

\* C16: aquire_free_handle changes neither size() nor a binding, the handle
\* it returns is not bound, it never returns a handle twice, and a later
\* store of an object carrying a returned handle succeeds unless an object
\* with that handle was stored before it.
C16_NonReserving ==
    /\ [](\A i, j \in 1 .. Len(issued) : i # j => issued[i] # issued[j])
    /\ [][/\ AcquireStep =>
               /\ size(size_') = size(size_)
               /\ buckets' = buckets
               /\ ~has(buckets', Issued)
          /\ (/\ StoreStep
              /\ \E i \in 1 .. Len(issued) : issued[i] = Stored.handle
              /\ \A i \in 1 .. Len(accepted) :
                     accepted[i].handle # Stored.handle)
             => last'.exc = NoException]_vars

\* C17: store of an object with handle 0 throws the invalid-handle exception,
\* store of an object whose non-zero handle an earlier store bound throws the
\* duplicate-binding exception, and the two exceptions differ.
C17_TwoFailures ==
    /\ [](InvalidHandle # DuplicateBinding)
    /\ [][StoreStep =>
              /\ Stored.handle = 0 => last'.exc = InvalidHandle
              /\ (/\ Stored.handle # 0
                  /\ \E i \in 1 .. Len(accepted) :
                         accepted[i].handle = Stored.handle)
                 => last'.exc = DuplicateBinding]_vars

\* C18: every entry with handle h lies in bucket h & (count - 1), and two
\* stored objects whose distinct handles select the same bucket are both
\* retrievable, get returning for each handle its own object.
C18_BucketPlacement ==
    /\ \A b \in DOMAIN buckets : \A i \in 1 .. Len(buckets[b]) :
           BitAnd(buckets[b][i].handle, hash_mask) = b
    /\ \A i, j \in 1 .. Len(accepted) :
           (/\ accepted[i].handle # accepted[j].handle
            /\ BitAnd(accepted[i].handle, hash_mask) =
                   BitAnd(accepted[j].handle, hash_mask))
           => /\ get(buckets, accepted[i].handle, nullptr) = accepted[i]
              /\ get(buckets, accepted[j].handle, nullptr) = accepted[j]

\* C19: size() is the number of entries held in all buckets, which is the
\* number of handles h for which has(h) is true.
C19_SizeCountsEntries ==
    /\ size(size_) = EntriesUpTo(count - 1)
    /\ size(size_) = Cardinality({h \in Handle : has(buckets, h)})

\* C20: on handles of HandleBits bits aquire_free_handle never returns the
\* invalid handle 0 and never returns a handle that is bound.
C20_NeverZeroNorBound ==
    last.op = "aquire_free_handle" =>
        /\ last.ret_handle # 0
        /\ ~has(buckets, last.ret_handle)

---------------------------------------------------------------------------
(* Property of the concurrent callers, checked under SpecRace *)

\* C14: with callers interleaved between the cache lookup and the cache
\* insert, every call returns the band table's category of its code, the
\* first write for a code wins, and the cache never holds an entry whose
\* category differs from the band table's category of its code.
C14_BenignRace ==
    /\ [](/\ \A t \in Threads :
                 threads[t].pc = "done" =>
                     threads[t].ret = BandTable(threads[t].code)
          /\ \A c \in DOMAIN group_code_cache :
                 group_code_cache[c] = BandTable(c))
    /\ [][\A c \in DOMAIN group_code_cache :
              /\ c \in DOMAIN group_code_cache'
              /\ group_code_cache'[c] = group_code_cache[c]]_vars

=============================================================================
